---- MODULE Spec2Model ----
(***************************************************************************)
(* A model of the RAG legal-document assistant: app.py (index lifecycle,   *)
(* ingestion of uploads, question answering, the sidebar listing),         *)
(* document_processor.py (loader, cleaner, chunker), vector_store.py       *)
(* (load_vector_store) and evaluation.py (the evaluation script).          *)
(*                                                                         *)
(* One action of Spec is one complete run of the Streamlit script app.py   *)
(* (the script is re-executed top to bottom on every user interaction) or  *)
(* one complete run of evaluation.py.  Spec holds the runs that change     *)
(* the index (page loads and ingestions), SpecAsk the runs that question   *)
(* it.  SpecConc runs the ingestion block of two browser sessions          *)
(* statement by statement.                                                 *)
(***************************************************************************)
EXTENDS Integers, Sequences, FiniteSets, TLC

VARIABLES
    store,       \* the persisted index at VECTOR_STORE_PATH (an Option of a docstore)
    baseDir,     \* the folder BASE_DOCS_FOLDER: [exists, files]
    uploadDir,   \* the folder UPLOADED_DOCS_FOLDER: [exists, files]
    evalStore,   \* the persisted index at evaluation.py's vector_store_path
    run,         \* which script ran last: "start", "page", "ingest", "ask", "eval"
    db0,         \* the value create_or_load_vector_store returned at app.py:107
    db,          \* the script's variable db when the run ended
    newChunks,   \* new_chunked_docs of the run (app.py:134)
    shown,       \* st.info / st.warning / st.success / print outputs of the run
    docList,     \* the sidebar listing doc_list (app.py:153)
    retrieved,   \* retrieved_docs_with_scores of the run's get_answer call
    answer,      \* the answer text displayed (app.py:175)
    citations,   \* retrieved_docs returned by get_answer (app.py:173)
    llmContext,  \* the context handed to the language model (app.py:88)
    calls,       \* the external calls the run made
    exc,         \* the exception that left the run uncaught, or "none"
    evalOut,     \* evaluation.py: [db, results]
    indexedNow,  \* history: the staged files whose chunks the run put into the saved index
    sess         \* SpecConc: per browser session [pc, db, chunks]

vars == <<store, baseDir, uploadDir, evalStore, run, db0, db, newChunks, shown,
          docList, retrieved, answer, citations, llmContext, calls, exc,
          evalOut, indexedNow, sess>>

(***************************************************************************)
(* Constants of the program                                                *)
(***************************************************************************)
BASE_DOCS_FOLDER == "documents"
UPLOADED_DOCS_FOLDER == "uploaded_docs"

\* RELEVANCE_THRESHOLD = 0.7; scores are modelled in tenths.
RELEVANCE_THRESHOLD == 7

\* get_answer(db, query, k=4)
DefaultK == 4

NOT_FOUND_MSG == "I'm sorry, but I couldn't find any relevant information in the documents for your question."

\* len(eval_dataset)
EvalItems == 2

(***************************************************************************)
(* Bounds of the model                                                     *)
(***************************************************************************)
\* The largest index an ingestion may produce.
MaxEntries == 5
\* The number of files selected in the uploader at once.
MaxUpload == 2

(***************************************************************************)
(* Values                                                                  *)
(***************************************************************************)
\* Python's None / an object, for the variables that hold an index.
None == [some |-> FALSE, docs |-> <<>>]
Some(docs) == [some |-> TRUE, docs |-> docs]

Scores == {RELEVANCE_THRESHOLD - 1, RELEVANCE_THRESHOLD, RELEVANCE_THRESHOLD + 1}

\* Whitespace characters matched by \s.
IsSpace(c) == c \in {" ", "\n", "\t"}

\* The raw text of the files that can be on disk.  A text is a sequence of
\* characters (words stand for runs of non-space characters); a file body is
\* the sequence of its pages (PDF) or its single text (DOCX); each page is
\* given as the pieces the splitter cuts it into.
\* "corrupt" marks a file its parser rejects.
Body(kind) ==
    CASE kind = "a"     -> << << <<"a1", " ", "\n", "a1b">>, <<"\n", "a2", " ">> >> >>
      [] kind = "b"     -> << << <<" ", "b1">> >> >>
      [] kind = "blank" -> << << <<" ", "\n">> >> >>
      [] OTHER          -> << >>

\* filename.endswith(suffix), on the file names of the model.
EndsWith(name, suffix) ==
    CASE name \in {"a.pdf", "c.pdf", "e.pdf"} -> suffix = ".pdf"
      [] name \in {"b.docx"}                          -> suffix = ".docx"
      [] name \in {"d.PDF"}                           -> suffix = ".PDF"
      [] name \in {"n.txt"}                           -> suffix = ".txt"
      [] OTHER                                        -> FALSE

\* A file on disk.  old and times are history: whether the copy was in its
\* folder before the current run began, and how many ingestion runs have put
\* its chunks into the saved index.
File(name, kind) == [name |-> name, kind |-> kind, old |-> FALSE, times |-> 0]

\* os.path.join(folder, filename) and os.path.basename(path)
PathJoin(folder, name) == <<folder, name>>
Basename(path) == path[2]

(***************************************************************************)
(* document_processor.py                                                   *)
(***************************************************************************)
\* PyPDFLoader(file_path).load() / Docx2txtLoader(file_path).load(): one
\* Document per page of a PDF (page numbers from 0), one Document for a DOCX
\* (no page: -1).
LoaderLoad(path, f) ==
    LET pages == Body(f.kind)
    IN  [i \in 1..Len(pages) |->
            [source |-> path,
             page   |-> IF EndsWith(f.name, ".pdf") THEN i - 1 ELSE -1,
             pieces |-> pages[i]]]

\* load_documents(folder_path); listing is os.listdir(folder_path).
\* A file its parser rejects raises out of the loop.
RECURSIVE load_documents(_, _)
load_documents(folder_path, listing) ==
    IF listing = << >> THEN [raised |-> "none", docs |-> << >>]
    ELSE LET f    == Head(listing)
             rest == load_documents(folder_path, Tail(listing))
             supported == EndsWith(f.name, ".pdf") \/ EndsWith(f.name, ".docx")
         IN  IF supported /\ f.kind = "corrupt"
                THEN [raised |-> "parse_error", docs |-> << >>]
             ELSE IF rest.raised # "none" THEN rest
             ELSE IF supported
                THEN [raised |-> "none",
                      docs |-> LoaderLoad(PathJoin(folder_path, f.name), f) \o rest.docs]
             ELSE rest

\* text.strip()
RECURSIVE LStrip(_)
LStrip(t) == IF t # << >> /\ IsSpace(Head(t)) THEN LStrip(Tail(t)) ELSE t

RECURSIVE RStrip(_)
RStrip(t) ==
    IF t # << >> /\ IsSpace(t[Len(t)]) THEN RStrip(SubSeq(t, 1, Len(t) - 1)) ELSE t

\* re.sub(r'\s+', ' ', text): every run of whitespace becomes one space.
RECURSIVE CollapseSpace(_)
CollapseSpace(t) ==
    IF t = << >> THEN << >>
    ELSE IF IsSpace(Head(t))
        THEN <<" ">> \o CollapseSpace(LStrip(t))
        ELSE <<Head(t)>> \o CollapseSpace(Tail(t))

clean_text(text) == RStrip(LStrip(CollapseSpace(text)))

\* text_splitter.split_documents: the pieces of each document in order, each
\* with its document's metadata; a piece of whitespace only gives no chunk.
RECURSIVE SplitPieces(_, _)
SplitPieces(doc, pieces) ==
    IF pieces = << >> THEN << >>
    ELSE (IF \A i \in 1..Len(Head(pieces)) : IsSpace(Head(pieces)[i])
             THEN << >>
             ELSE << [source |-> doc.source, page |-> doc.page, text |-> Head(pieces)] >>)
         \o SplitPieces(doc, Tail(pieces))

RECURSIVE split_documents(_)
split_documents(documents) ==
    IF documents = << >> THEN << >>
    ELSE SplitPieces(Head(documents), Head(documents).pieces)
         \o split_documents(Tail(documents))

\* chunk_documents(documents): split, then clean the content of each chunk.
chunk_documents(documents) ==
    LET chunks == split_documents(documents)
    IN  [i \in 1..Len(chunks) |->
            [source |-> chunks[i].source, page |-> chunks[i].page,
             text |-> clean_text(chunks[i].text)]]

(***************************************************************************)
(* The vector index (langchain FAISS), as app.py uses it                   *)
(***************************************************************************)
\* FAISS.from_documents(chunks, embeddings): fails on an empty list (it reads
\* the dimension from the first embedding).
from_documents(chunks) ==
    IF chunks = << >> THEN [raised |-> "build_error", db |-> None]
    ELSE [raised |-> "none", db |-> Some(chunks)]

\* Mutant of add_documents: chunks whose text the index already holds are
\* skipped.
RECURSIVE FreshChunks(_, _)
FreshChunks(docs, chunks) ==
    IF chunks = << >> THEN << >>
    ELSE (IF \E i \in 1..Len(docs) : docs[i].text = Head(chunks).text
             THEN << >> ELSE <<Head(chunks)>>)
         \o FreshChunks(docs, Tail(chunks))

add_documents_dedup(d, chunks, rejectsEmpty) ==
    IF chunks = << >> /\ rejectsEmpty THEN [raised |-> "build_error", db |-> d]
    ELSE [raised |-> "none", db |-> Some(d.docs \o FreshChunks(d.docs, chunks))]

\* db.add_documents(chunks): appends, never deduplicates.  With an empty list
\* the index library either rejects the empty array or adds nothing,
\* depending on its version: rejectsEmpty is that choice.
add_documents(d, chunks, rejectsEmpty) ==
    IF chunks = << >> /\ rejectsEmpty THEN [raised |-> "build_error", db |-> d]
    ELSE [raised |-> "none", db |-> Some(d.docs \o chunks)]

\* Mutant of save_local: nothing is written.
save_local_skip(stored, d) == stored

\* db.save_local(VECTOR_STORE_PATH): what the store path holds afterwards,
\* given what it held (stored) and the index saved (d).
save_local(stored, d) == d

\* The positions of docs ordered by relevance score, highest first; equal
\* scores keep the docstore order.
RECURSIVE Ranked(_, _, _)
Ranked(docs, scoring, left) ==
    IF left = {} THEN << >>
    ELSE LET best == CHOOSE i \in left :
                         \A j \in left :
                             \/ scoring[docs[i].text] > scoring[docs[j].text]
                             \/ /\ scoring[docs[i].text] = scoring[docs[j].text]
                                /\ i <= j
         IN  <<best>> \o Ranked(docs, scoring, left \ {best})

\* db.similarity_search_with_relevance_scores(query, k=k): the k nearest
\* entries as (doc, score) pairs.  scoring is the embedding model's verdict on
\* the query against each chunk text; id is the entry's docstore position.
similarity_search_with_relevance_scores(d, scoring, k) ==
    LET order == Ranked(d.docs, scoring, 1..Len(d.docs))
        n     == IF Len(order) < k THEN Len(order) ELSE k
    IN  [i \in 1..n |->
            [id |-> order[i], doc |-> d.docs[order[i]],
             score |-> scoring[d.docs[order[i]].text]]]

(***************************************************************************)
(* app.py                                                                  *)
(***************************************************************************)
\* create_or_load_vector_store(), on the storage st = [store, baseDir];
\* listing is os.listdir(BASE_DOCS_FOLDER).
create_or_load_vector_store(st, listing) ==
    IF st.store.some
    THEN [raised |-> "none", db |-> Some(st.store.docs), store |-> st.store,
          baseDir |-> st.baseDir, shown |-> {}, calls |-> {"load_local"}]
    ELSE IF ~st.baseDir.exists \/ st.baseDir.files = {}
    THEN [raised |-> "none", db |-> None, store |-> st.store,
          baseDir |-> [exists |-> TRUE, files |-> st.baseDir.files],
          shown |-> {"info: creating a new knowledge base"}, calls |-> {}]
    ELSE LET loaded == load_documents(BASE_DOCS_FOLDER, listing)
             built  == from_documents(chunk_documents(loaded.docs))
             base   == [store |-> st.store, baseDir |-> st.baseDir,
                        shown |-> {"info: creating a new knowledge base"}]
         IN  IF loaded.raised # "none"
                THEN base @@ [raised |-> loaded.raised, db |-> None,
                              calls |-> {"load_documents_base"}]
             ELSE IF loaded.docs = << >>
                THEN base @@ [raised |-> "none", db |-> None,
                              calls |-> {"load_documents_base"}]
             ELSE IF built.raised # "none"
                THEN base @@ [raised |-> built.raised, db |-> None,
                              calls |-> {"load_documents_base", "from_documents"}]
             ELSE [raised |-> "none", db |-> built.db,
                   store |-> save_local(st.store, built.db),
                   baseDir |-> st.baseDir,
                   shown |-> {"info: creating a new knowledge base"},
                   calls |-> {"load_documents_base", "from_documents", "save_local"}]

\* Mutant of Relevant: a score equal to the threshold passes.
Relevant_atMost(score) == score <= RELEVANCE_THRESHOLD

\* The relevance filter of get_answer: score < RELEVANCE_THRESHOLD.
Relevant(score) == score < RELEVANCE_THRESHOLD

\* [doc for doc, score in retrieved_docs_with_scores if score < RELEVANCE_THRESHOLD]
RECURSIVE RelevantDocs(_)
RelevantDocs(pairs) ==
    IF pairs = << >> THEN << >>
    ELSE (IF Relevant(Head(pairs).score)
             THEN << [id |-> Head(pairs).id, doc |-> Head(pairs).doc] >>
             ELSE << >>)
         \o RelevantDocs(Tail(pairs))

\* Mutant of Join: a single line break between two texts.
RECURSIVE Join_single(_)
Join_single(texts) ==
    IF texts = << >> THEN << >>
    ELSE IF Len(texts) = 1 THEN Head(texts)
    ELSE Head(texts) \o <<"\n">> \o Join_single(Tail(texts))

\* "\n\n".join(texts)
RECURSIVE Join(_)
Join(texts) ==
    IF texts = << >> THEN << >>
    ELSE IF Len(texts) = 1 THEN Head(texts)
    ELSE Head(texts) \o <<"\n\n">> \o Join(Tail(texts))

\* Mutant of NothingRelevant: the early return is never taken.
NothingRelevant_never(relevant_docs) == FALSE

\* "if not relevant_docs", app.py:81
NothingRelevant(relevant_docs) == relevant_docs = << >>

\* get_answer(db, query, k); llmOk is whether chain.invoke returns (else it
\* raises).  The answer text of the model is opaque: "LLM" stands for it.
get_answer(d, scoring, k, llmOk) ==
    LET pairs == similarity_search_with_relevance_scores(d, scoring, k)
        relevant_docs == RelevantDocs(pairs)
        context == Join([i \in 1..Len(relevant_docs) |-> relevant_docs[i].doc.text])
        base == [retrieved |-> pairs]
    IN  IF NothingRelevant(relevant_docs)
           THEN base @@ [raised |-> "none", answer |-> NOT_FOUND_MSG, docs |-> << >>,
                         context |-> << >>, calls |-> {"search"}]
        ELSE IF ~llmOk
           THEN base @@ [raised |-> "model_error", answer |-> "", docs |-> << >>,
                         context |-> context, calls |-> {"search", "llm"}]
        ELSE base @@ [raised |-> "none", answer |-> "LLM", docs |-> relevant_docs,
                      context |-> context, calls |-> {"search", "llm"}]

\* The order of Python's string comparison on the file names of the model.
NameRank(name) ==
    CASE name = "a.pdf"  -> 1
      [] name = "b.docx" -> 2
      [] name = "c.pdf"  -> 3
      [] name = "d.PDF"  -> 4
      [] name = "e.pdf"  -> 5
      [] OTHER           -> 6

\* sorted([os.path.basename(src) for src in sources]): one name per element
\* of sources, ascending.
RECURSIVE SortedBasenames(_)
SortedBasenames(sources) ==
    IF sources = {} THEN << >>
    ELSE LET least == CHOOSE s \in sources :
                          \A t \in sources :
                              NameRank(Basename(s)) <= NameRank(Basename(t))
         IN  <<Basename(least)>> \o SortedBasenames(sources \ {least})

\* get_indexed_documents(db)
get_indexed_documents(d) ==
    IF ~d.some THEN << >>
    ELSE LET sources == {d.docs[i].source : i \in 1..Len(d.docs)}
         IN  SortedBasenames(sources)

\* app.py:125-128: every selected file is written into the uploads folder,
\* replacing a file of the same name.
SaveUploads(dir, uploaded_files) ==
    [exists |-> TRUE,
     files  |-> {f \in dir.files : \A u \in uploaded_files : u.name # f.name}
                \cup uploaded_files]

\* Mutant of ClearUploads: the staged files are left in place.
ClearUploads_skip(dir) == dir

\* shutil.rmtree(UPLOADED_DOCS_FOLDER); os.makedirs(UPLOADED_DOCS_FOLDER)
ClearUploads(dir) == [exists |-> TRUE, files |-> {}]

\* app.py:130-150, the body of "Process and Add to Knowledge Base" after the
\* files are written: d is db, st the storage [store, uploadDir], listing is
\* os.listdir(UPLOADED_DOCS_FOLDER).  rerun is st.rerun() having been reached;
\* indexed are the staged files whose chunks went into the saved index.
ingest_block(d, st, listing, rejectsEmpty) ==
    LET loaded == load_documents(UPLOADED_DOCS_FOLDER, listing)
        new_chunked_docs == chunk_documents(loaded.docs)
        merged == IF d.some THEN add_documents(d, new_chunked_docs, rejectsEmpty)
                  ELSE from_documents(new_chunked_docs)
        kept == [store |-> st.store, uploadDir |-> st.uploadDir, db |-> d,
                 rerun |-> FALSE, indexed |-> {}]
    IN  IF loaded.raised # "none"
           THEN kept @@ [raised |-> loaded.raised, newChunks |-> << >>, shown |-> {},
                         calls |-> {"load_documents_uploads"}]
        ELSE IF loaded.docs = << >>
           THEN kept @@ [raised |-> "none", newChunks |-> << >>,
                         shown |-> {"warning: no new documents to process"},
                         calls |-> {"load_documents_uploads"}]
        ELSE IF merged.raised # "none"
           THEN kept @@ [raised |-> merged.raised, newChunks |-> new_chunked_docs,
                         shown |-> {},
                         calls |-> {"load_documents_uploads",
                                    IF d.some THEN "add_documents" ELSE "from_documents"}]
        ELSE [raised |-> "none", db |-> merged.db,
              store |-> save_local(st.store, merged.db),
              uploadDir |-> ClearUploads(st.uploadDir),
              newChunks |-> new_chunked_docs, rerun |-> TRUE,
              indexed |-> {f \in st.uploadDir.files :
                              \E i \in 1..Len(new_chunked_docs) :
                                  Basename(new_chunked_docs[i].source) = f.name},
              shown |-> {"success: knowledge base updated"},
              calls |-> {"load_documents_uploads",
                         IF d.some THEN "add_documents" ELSE "from_documents",
                         "save_local", "rmtree"}]

\* Mutant of IsNone: the question area is shown whatever db is.
IsNone_never(d) == FALSE

\* "if db is None", app.py:163
IsNone(d) == ~d.some

\* app.py:163-184, the question area: clicked is "Get Answer" pressed.
qa_block(d, clicked, query, scoring, llmOk) ==
    LET quiet == [raised |-> "none", retrieved |-> << >>, answer |-> "",
                  citations |-> << >>, llmContext |-> << >>, calls |-> {}]
        g == get_answer(d, scoring, DefaultK, llmOk)
    IN  IF IsNone(d)
           THEN quiet @@ [shown |-> {"warning: knowledge base is empty"}]
        ELSE IF ~clicked THEN quiet @@ [shown |-> {}]
        ELSE IF query = ""
           THEN quiet @@ [shown |-> {"warning: please enter a question"}]
        ELSE [raised |-> g.raised, retrieved |-> g.retrieved, answer |-> g.answer,
              citations |-> g.docs, llmContext |-> g.context, calls |-> g.calls,
              shown |-> {}]

(***************************************************************************)
(* The inputs of a run                                                     *)
(***************************************************************************)
\* The files of S as a sequence, by ascending file name.
RECURSIVE ByName(_)
ByName(S) ==
    IF S = {} THEN << >>
    ELSE LET least == CHOOSE f \in S : \A g \in S : NameRank(f.name) <= NameRank(g.name)
         IN  <<least>> \o ByName(S \ {least})

Reverse(s) == [i \in 1..Len(s) |-> s[Len(s) + 1 - i]]

\* os.listdir(folder): the order is the file system's.  The model takes the
\* ascending and the descending order by name, so that any two files of a
\* folder are read in both orders.
Listings(S) == {ByName(S), Reverse(ByName(S))}

\* os.listdir(BASE_DOCS_FOLDER), where the run reads it.
BaseListings == IF store.some THEN {<< >>} ELSE Listings(baseDir.files)

TextsOf(d) == {d.docs[i].text : i \in 1..Len(d.docs)}

\* The files a user may have in the base folder and may select for upload.
\* d.PDF passes the uploader's type filter and is no ".pdf" for endswith;
\* c.pdf exists in a damaged and in a repaired copy.
BaseFolders == {{}, {File("n.txt", "b")}, {File("a.pdf", "a")}, {File("e.pdf", "blank")}}
UploadFiles == {File("a.pdf", "a"), File("c.pdf", "corrupt"), File("c.pdf", "b"),
                File("d.PDF", "b"), File("e.pdf", "blank")}
UploadSelections ==
    {S \in SUBSET UploadFiles :
        /\ S # {}
        /\ Cardinality(S) <= MaxUpload
        /\ \A f, g \in S : f.name = g.name => f = g}

\* What the user types and what the embedding model and the language model
\* do with it: the query, the score of each indexed text, whether the model
\* call returns.
AskInputs(d) ==
    {[query |-> "", scoring |-> << >>, llmOk |-> TRUE]}
    \cup [query : {"q"}, scoring : [TextsOf(d) -> Scores], llmOk : BOOLEAN]

\* An index built earlier under evaluation.py's store path.
EvalIndex ==
    Some(chunk_documents(LoaderLoad(PathJoin(UPLOADED_DOCS_FOLDER, "c.pdf"),
                                    File("c.pdf", "b"))))

\* Per item of eval_dataset: whether the baseline call returns, the scores,
\* whether the call inside get_answer returns (the last two are read only if
\* the baseline call returned).
EvalInputs(d) ==
    {in \in [baselineOk : BOOLEAN, llmOk : BOOLEAN, scoring : [TextsOf(d) -> Scores]] :
        ~in.baselineOk =>
            in.llmOk /\ \A t \in TextsOf(d) : in.scoring[t] = RELEVANCE_THRESHOLD}

(***************************************************************************)
(* Runs of the script app.py                                               *)
(***************************************************************************)
NoAnswer == [retrieved |-> << >>, answer |-> "", citations |-> << >>,
             llmContext |-> << >>]

\* The run ended with create_or_load_vector_store raising at app.py:107.
LoadFailed(c) ==
    NoAnswer @@
    [store |-> c.store, baseDir |-> c.baseDir, uploadDir |-> uploadDir,
     db0 |-> None, db |-> None, newChunks |-> << >>, shown |-> c.shown,
     docList |-> << >>, calls |-> c.calls, exc |-> c.raised]

\* The run ended with the ingestion block raising.
IngestFailed(c, dir, r) ==
    NoAnswer @@
    [store |-> r.store, baseDir |-> c.baseDir, uploadDir |-> dir,
     db0 |-> c.db, db |-> r.db, newChunks |-> r.newChunks,
     shown |-> c.shown \cup r.shown, docList |-> << >>,
     calls |-> c.calls \cup r.calls, exc |-> r.raised]

\* The run reached the sidebar listing (app.py:152-158) and the question
\* area with db = d; q is the outcome of the question area.
Finished(c, st, d, chunks, shownSoFar, callsSoFar, q) ==
    [store |-> st.store, baseDir |-> c.baseDir, uploadDir |-> st.uploadDir,
     db0 |-> c.db, db |-> d, newChunks |-> chunks,
     shown |-> shownSoFar \cup q.shown, docList |-> get_indexed_documents(d),
     retrieved |-> q.retrieved, answer |-> q.answer, citations |-> q.citations,
     llmContext |-> q.llmContext, calls |-> callsSoFar \cup q.calls,
     exc |-> q.raised]

Commit(kind, r) ==
    /\ run' = kind
    /\ store' = r.store
    /\ baseDir' = r.baseDir
    /\ uploadDir' = r.uploadDir
    /\ db0' = r.db0
    /\ db' = r.db
    /\ newChunks' = r.newChunks
    /\ shown' = r.shown
    /\ docList' = r.docList
    /\ retrieved' = r.retrieved
    /\ answer' = r.answer
    /\ citations' = r.citations
    /\ llmContext' = r.llmContext
    /\ calls' = r.calls
    /\ exc' = r.exc

\* os.makedirs(UPLOADED_DOCS_FOLDER, exist_ok=True), app.py:114
MadeUploads == [exists |-> TRUE, files |-> uploadDir.files]

\* A run without "Process and Add" pressed; clicked, query, scoring and llmOk
\* are the inputs of the question area.
PlainRun(c, clicked, in) ==
    IF c.raised # "none" THEN LoadFailed(c)
    ELSE Finished(c, [store |-> c.store, uploadDir |-> MadeUploads], c.db, << >>,
                  c.shown, c.calls,
                  qa_block(c.db, clicked, in.query, in.scoring, in.llmOk))

NoInput == [query |-> "", scoring |-> << >>, llmOk |-> TRUE]

NoEval == [db |-> None, shown |-> {}, raised |-> "none", results |-> << >>,
           llmCalls |-> 0, searches |-> 0]

\* The page is opened or refreshed.
PageLoad ==
    \E listing \in BaseListings :
        LET c == create_or_load_vector_store([store |-> store, baseDir |-> baseDir],
                                             listing)
        IN  /\ Commit("page", PlainRun(c, FALSE, NoInput))
            /\ evalOut' = NoEval
            /\ indexedNow' = {}
            /\ UNCHANGED <<evalStore, sess>>

\* "Get Answer" is pressed with a query in the text box.
Ask ==
    \E listing \in BaseListings :
        LET c == create_or_load_vector_store([store |-> store, baseDir |-> baseDir],
                                             listing)
        IN  \E in \in AskInputs(c.db) :
                /\ Commit("ask", PlainRun(c, TRUE, in))
                /\ evalOut' = NoEval
                /\ indexedNow' = {}
                /\ UNCHANGED <<evalStore, sess>>

\* History: the copies already in the folder were staged by an earlier run.
Aged(dir) == [exists |-> dir.exists, files |-> {[f EXCEPT !.old = TRUE] : f \in dir.files}]

\* History: count the run for each copy it indexed and left in the folder.
Counted(dir, indexed) ==
    [exists |-> dir.exists,
     files  |-> {IF f \in indexed THEN [f EXCEPT !.times = @ + 1] ELSE f : f \in dir.files}]

\* Files are selected in the uploader and "Process and Add to Knowledge
\* Base" is pressed.  After a merge st.rerun() runs the script again, which
\* loads the index just saved.
Ingest ==
    \E listing \in BaseListings, uploaded_files \in UploadSelections,
       rejectsEmpty \in BOOLEAN :
        LET c   == create_or_load_vector_store([store |-> store, baseDir |-> baseDir],
                                               listing)
            dir == SaveUploads(Aged(MadeUploads), uploaded_files)
        IN  \E uploads \in Listings(dir.files) :
                LET r  == ingest_block(c.db, [store |-> c.store, uploadDir |-> dir],
                                       uploads, rejectsEmpty)
                    c2 == create_or_load_vector_store(
                              [store |-> r.store, baseDir |-> c.baseDir], << >>)
                    d  == IF r.rerun THEN c2.db ELSE r.db
                    ok == c.raised = "none" /\ r.raised = "none"
                IN  /\ Len(r.db.docs) <= MaxEntries
                    /\ Commit("ingest",
                          IF c.raised # "none" THEN LoadFailed(c)
                          ELSE IF r.raised # "none" THEN IngestFailed(c, dir, r)
                          ELSE Finished(c, [store |-> r.store,
                                            uploadDir |-> Counted(r.uploadDir, r.indexed)],
                                        d, r.newChunks,
                                        c.shown \cup r.shown
                                            \cup (IF r.rerun THEN c2.shown ELSE {}),
                                        c.calls \cup r.calls
                                            \cup (IF r.rerun THEN c2.calls ELSE {}),
                                        qa_block(d, FALSE, "", << >>, TRUE)))
                    /\ indexedNow' = IF ok THEN r.indexed ELSE {}
                    /\ evalOut' = NoEval
                    /\ UNCHANGED <<evalStore, sess>>

(***************************************************************************)
(* vector_store.py and evaluation.py                                       *)
(***************************************************************************)
\* load_vector_store(store_path): FAISS.load_local on the path.
load_vector_store(stored) == Some(stored.docs)

\* evaluation.py:12-17: the module-level load of the store.
EvalSetup(stored) ==
    IF stored.some
       THEN [db |-> load_vector_store(stored), shown |-> {}]
       ELSE [db |-> None, shown |-> {"print: vector store not found"}]

\* The loop of evaluate() from item i on; inputs[i] are the outcomes of the
\* two model calls and of the embedding for item i.  An exception of either
\* call leaves evaluate().
RECURSIVE EvalLoop(_, _, _)
EvalLoop(d, inputs, i) ==
    IF i > EvalItems
       THEN [raised |-> "none", results |-> << >>, llmCalls |-> 0, searches |-> 0]
    ELSE IF ~inputs[i].baselineOk
       THEN [raised |-> "model_error", results |-> << >>, llmCalls |-> 1, searches |-> 0]
    ELSE LET g == get_answer(d, inputs[i].scoring, DefaultK, inputs[i].llmOk)
             n == IF "llm" \in g.calls THEN 2 ELSE 1
             rest == EvalLoop(d, inputs, i + 1)
         IN  IF g.raised # "none"
                THEN [raised |-> g.raised, results |-> << >>, llmCalls |-> n,
                      searches |-> 1]
             ELSE [raised |-> rest.raised,
                   results |-> IF rest.raised # "none" THEN << >>
                               ELSE << [item |-> i, baseline_answer |-> "BASELINE",
                                        rag_answer |-> g.answer] >> \o rest.results,
                   llmCalls |-> n + rest.llmCalls,
                   searches |-> 1 + rest.searches]

\* evaluate()
evaluate(d, inputs) ==
    IF ~d.some
       THEN [raised |-> "none", results |-> << >>, llmCalls |-> 0, searches |-> 0]
       ELSE EvalLoop(d, inputs, 1)

\* python evaluation.py: "from app import get_answer" runs app.py as a plain
\* script (no button is pressed), then the store is loaded and evaluate() runs.
Evaluate ==
    \E listing \in BaseListings :
        LET c  == create_or_load_vector_store([store |-> store, baseDir |-> baseDir],
                                              listing)
            s  == EvalSetup(evalStore)
        IN  \E inputs \in [1..EvalItems -> EvalInputs(s.db)] :
                LET e == evaluate(s.db, inputs)
                IN  /\ Commit("eval", PlainRun(c, FALSE, NoInput))
                    /\ evalOut' = IF c.raised # "none" THEN NoEval
                                  ELSE [db |-> s.db, shown |-> s.shown,
                                        raised |-> e.raised, results |-> e.results,
                                        llmCalls |-> e.llmCalls,
                                        searches |-> e.searches]
                    /\ indexedNow' = {}
                    /\ UNCHANGED <<evalStore, sess>>

(***************************************************************************)
(* Spec: the life of the index, one run at a time                          *)
(***************************************************************************)
Sessions == {1, 2}
NoSessions == [s \in Sessions |-> [pc |-> "idle", db |-> None, chunks |-> << >>]]

\* Nothing has run yet.
Fresh ==
    /\ run = "start"
    /\ db0 = None
    /\ db = None
    /\ newChunks = << >>
    /\ shown = {}
    /\ docList = << >>
    /\ retrieved = << >>
    /\ answer = ""
    /\ citations = << >>
    /\ llmContext = << >>
    /\ calls = {}
    /\ exc = "none"
    /\ evalOut = NoEval
    /\ indexedNow = {}

\* A first start: no index is persisted, the base folder is missing or holds
\* one of BaseFolders, nothing is staged.
Init ==
    /\ store = None
    /\ baseDir \in {[exists |-> FALSE, files |-> {}]}
                   \cup {[exists |-> TRUE, files |-> S] : S \in BaseFolders}
    /\ uploadDir = [exists |-> FALSE, files |-> {}]
    /\ evalStore = None
    /\ sess = NoSessions
    /\ Fresh

Next == PageLoad \/ Ingest

Spec == Init /\ [][Next]_vars

(***************************************************************************)
(* SpecAsk: questions and the evaluation script                            *)
(*                                                                         *)
(* A run that asks a question, and a run of evaluation.py, write to        *)
(* storage exactly what PageLoad writes, so they add no storage state to   *)
(* those of Spec.  SpecAsk starts from storage states of Spec (a first     *)
(* start, and indexes that ingestion runs of Spec produce) and leaves      *)
(* ingestion out.                                                          *)
(***************************************************************************)
ChunksOf(folder, files) == chunk_documents(load_documents(folder, files).docs)

\* The index built from a.pdf in the base folder, and the same after a.pdf
\* and the repaired c.pdf were uploaded and merged.
IndexBase == Some(ChunksOf(BASE_DOCS_FOLDER, <<File("a.pdf", "a")>>))
IndexMerged ==
    Some(IndexBase.docs
         \o ChunksOf(UPLOADED_DOCS_FOLDER, <<File("c.pdf", "b"), File("a.pdf", "a")>>))

InitAsk ==
    /\ \/ /\ store = None
          /\ baseDir \in {[exists |-> FALSE, files |-> {}]}
                         \cup {[exists |-> TRUE, files |-> S] : S \in BaseFolders}
          /\ uploadDir = [exists |-> FALSE, files |-> {}]
       \/ /\ store = IndexMerged
          /\ baseDir = [exists |-> TRUE, files |-> {File("a.pdf", "a")}]
          /\ uploadDir = [exists |-> TRUE, files |-> {}]
    /\ evalStore \in {None, EvalIndex}
    /\ sess = NoSessions
    /\ Fresh

NextAsk == PageLoad \/ Ask \/ Evaluate

SpecAsk == InitAsk /\ [][NextAsk]_vars

(***************************************************************************)
(* SpecConc: two browser sessions press "Process and Add" at once          *)
(*                                                                         *)
(* Streamlit runs the script of each session in a thread of its own; app.py*)
(* takes no lock.  A session's run is cut at the statements that read or   *)
(* write the persisted index or the uploads folder:                        *)
(*   start (app.py:107-114), write (125-128), read (132-134),              *)
(*   merge (137-141), save (144), clear (145-146).                         *)
(***************************************************************************)
ConcUploads == {File("a.pdf", "a"), File("c.pdf", "b")}

SetSess(s, pc, d, chunks) ==
    sess' = [sess EXCEPT ![s] = [pc |-> pc, db |-> d, chunks |-> chunks]]

RunVars == <<evalStore, run, db0, db, newChunks, shown, docList, retrieved, answer,
             citations, llmContext, calls, exc, evalOut, indexedNow>>

\* db = create_or_load_vector_store(); os.makedirs(UPLOADED_DOCS_FOLDER, exist_ok=True)
SStart(s) ==
    /\ sess[s].pc = "start"
    /\ \E listing \in BaseListings :
        LET c == create_or_load_vector_store([store |-> store, baseDir |-> baseDir],
                                             listing)
        IN  /\ store' = c.store
            /\ baseDir' = c.baseDir
            /\ uploadDir' = IF c.raised = "none" THEN MadeUploads ELSE uploadDir
            /\ SetSess(s, IF c.raised = "none" THEN "write" ELSE "failed", c.db, << >>)
    /\ UNCHANGED RunVars

\* The selected file is written into the uploads folder.
SWrite(s) ==
    /\ sess[s].pc = "write"
    /\ \E f \in ConcUploads : uploadDir' = SaveUploads(Aged(uploadDir), {f})
    /\ SetSess(s, "read", sess[s].db, << >>)
    /\ UNCHANGED <<store, baseDir>>
    /\ UNCHANGED RunVars

\* new_docs = load_documents(UPLOADED_DOCS_FOLDER); new_chunked_docs = chunk_documents(new_docs)
SRead(s) ==
    /\ sess[s].pc = "read"
    /\ \E listing \in Listings(uploadDir.files) :
        LET loaded == load_documents(UPLOADED_DOCS_FOLDER, listing)
        IN  SetSess(s, IF loaded.raised # "none" THEN "failed"
                       ELSE IF loaded.docs = << >> THEN "nothing"
                       ELSE "merge",
                    sess[s].db, chunk_documents(loaded.docs))
    /\ UNCHANGED <<store, baseDir, uploadDir>>
    /\ UNCHANGED RunVars

\* db.add_documents(new_chunked_docs), or FAISS.from_documents when db is None
SMerge(s) ==
    /\ sess[s].pc = "merge"
    /\ \E rejectsEmpty \in BOOLEAN :
        LET merged == IF sess[s].db.some
                         THEN add_documents(sess[s].db, sess[s].chunks, rejectsEmpty)
                         ELSE from_documents(sess[s].chunks)
        IN  SetSess(s, IF merged.raised # "none" THEN "failed" ELSE "save",
                    merged.db, sess[s].chunks)
    /\ UNCHANGED <<store, baseDir, uploadDir>>
    /\ UNCHANGED RunVars

\* db.save_local(VECTOR_STORE_PATH)
SSave(s) ==
    /\ sess[s].pc = "save"
    /\ store' = save_local(store, sess[s].db)
    /\ SetSess(s, "clear", sess[s].db, sess[s].chunks)
    /\ UNCHANGED <<baseDir, uploadDir>>
    /\ UNCHANGED RunVars

\* shutil.rmtree(UPLOADED_DOCS_FOLDER); os.makedirs(UPLOADED_DOCS_FOLDER)
SClear(s) ==
    /\ sess[s].pc = "clear"
    /\ uploadDir' = ClearUploads(uploadDir)
    /\ SetSess(s, "done", sess[s].db, sess[s].chunks)
    /\ UNCHANGED <<store, baseDir>>
    /\ UNCHANGED RunVars

\* Both sessions have files selected and press the button; the index is
\* absent with an empty base folder, or was built from a.pdf.
InitConc ==
    /\ \/ /\ store = None
          /\ baseDir = [exists |-> TRUE, files |-> {}]
       \/ /\ store = IndexBase
          /\ baseDir = [exists |-> TRUE, files |-> {File("a.pdf", "a")}]
    /\ uploadDir = [exists |-> TRUE, files |-> {}]
    /\ evalStore = None
    /\ sess = [s \in Sessions |-> [pc |-> "start", db |-> None, chunks |-> << >>]]
    /\ Fresh

NextConc ==
    \E s \in Sessions :
        SStart(s) \/ SWrite(s) \/ SRead(s) \/ SMerge(s) \/ SSave(s) \/ SClear(s)

SpecConc == InitConc /\ [][NextConc]_vars

\* C6: when two ingestion flows have both completed, the persisted index
\* holds the entries of both: every chunk either flow added is in it, and it
\* has at least as many entries as the two flows added together.
C6_NoLostUpdate ==
    (\A s \in Sessions : sess[s].pc = "done") =>
        /\ \A s \in Sessions : \A i \in 1..Len(sess[s].chunks) :
               \E k \in 1..Len(store.docs) : store.docs[k] = sess[s].chunks[i]
        /\ Len(store.docs) >= Len(sess[1].chunks) + Len(sess[2].chunks)

(***************************************************************************)
(* Claims about get_answer and the question area (SpecAsk)                 *)
(***************************************************************************)
\* The run pressed "Get Answer" and get_answer searched the index.
Answered == run = "ask" /\ "search" \in calls

\* The positions of retrieved whose score is strictly below the threshold.
Passing == {i \in 1..Len(retrieved) : retrieved[i].score < RELEVANCE_THRESHOLD}

\* The position in retrieved of the j-th chunk that passes.
NthPassing(j) ==
    CHOOSE p \in Passing : Cardinality({q \in Passing : q <= p}) = j

\* A context cut at its blank-line separators.
RECURSIVE SplitAtBlankLines(_, _)
SplitAtBlankLines(ctx, cur) ==
    IF ctx = << >> THEN <<cur>>
    ELSE IF Head(ctx) = "\n\n" THEN <<cur>> \o SplitAtBlankLines(Tail(ctx), << >>)
    ELSE SplitAtBlankLines(Tail(ctx), Append(cur, Head(ctx)))

\* C1: when no chunk the search returned passes the relevance threshold,
\* get_answer returns the fixed "no relevant information" message with an
\* empty citation list, and the language model is not called in that run.
C1_NoRelevantNoModel ==
    (Answered /\ Passing = {}) =>
        /\ answer = NOT_FOUND_MSG
        /\ citations = << >>
        /\ "llm" \notin calls
        /\ exc = "none"

\* C1 witness: a question whose search returned chunks, none of them passing.
C1_Witness ==
    /\ Answered
    /\ retrieved # << >>
    /\ Passing = {}
    /\ answer = NOT_FOUND_MSG

\* C2: a retrieved chunk is kept (is among the citations) if and only if its
\* score is strictly below the threshold; a score equal to the threshold is
\* excluded.
C2_StrictThreshold ==
    (Answered /\ exc = "none") =>
        \A i \in 1..Len(retrieved) :
            (\E j \in 1..Len(citations) : citations[j].id = retrieved[i].id)
                <=> retrieved[i].score < RELEVANCE_THRESHOLD

\* C2 witness: one answer with a chunk exactly at the threshold left out and
\* a chunk below it kept.
C2_Witness ==
    /\ Answered
    /\ exc = "none"
    /\ \E i \in 1..Len(retrieved) :
           /\ retrieved[i].score = RELEVANCE_THRESHOLD
           /\ \A j \in 1..Len(citations) : citations[j].id # retrieved[i].id
    /\ \E i \in 1..Len(retrieved) :
           /\ retrieved[i].score = RELEVANCE_THRESHOLD - 1
           /\ \E j \in 1..Len(citations) : citations[j].id = retrieved[i].id

\* C3: when a chunk passes, the context given to the language model is the
\* texts of the passing chunks in the order the search returned them, with a
\* blank line between two texts, and the citations returned are those chunks
\* in that order.
C3_ContextAndCitations ==
    (Answered /\ Passing # {}) =>
        /\ "llm" \in calls
        /\ SplitAtBlankLines(llmContext, << >>)
               = [j \in 1..Cardinality(Passing) |-> retrieved[NthPassing(j)].doc.text]
        /\ exc = "none" =>
               /\ Len(citations) = Cardinality(Passing)
               /\ \A j \in 1..Len(citations) :
                      /\ citations[j].id = retrieved[NthPassing(j)].id
                      /\ citations[j].doc = retrieved[NthPassing(j)].doc

\* C3 witness: an answer citing two chunks of different text while another
\* retrieved chunk failed the threshold.
C3_Witness ==
    /\ Answered
    /\ exc = "none"
    /\ Len(citations) >= 2
    /\ citations[1].doc.text # citations[2].doc.text
    /\ Len(retrieved) > Len(citations)
    /\ Len(llmContext) > 0

\* C7: with no index (db is None) a question is turned away with the "knowledge
\* base is empty" warning, and evaluation.py, having printed "vector store
\* not found", evaluates nothing: neither the search nor a language model is
\* called.
C7_NoQueryWithoutIndex ==
    /\ (run = "ask" /\ ~db.some) =>
           /\ "search" \notin calls
           /\ "llm" \notin calls
           /\ retrieved = << >>
           /\ exc = "none" => "warning: knowledge base is empty" \in shown
    /\ (run = "eval" /\ exc = "none" /\ ~evalOut.db.some) =>
           /\ "print: vector store not found" \in evalOut.shown
           /\ evalOut.searches = 0
           /\ evalOut.llmCalls = 0
           /\ evalOut.results = << >>

\* C7 witness: a question asked while the knowledge base is empty.
C7_Witness ==
    /\ run = "ask"
    /\ ~db.some
    /\ exc = "none"
    /\ "warning: knowledge base is empty" \in shown

\* C8: a failed language-model call is shown as a "could not generate an
\* answer" message and never leaves the run as a raw exception.
C8_ModelFailureHandled ==
    ("llm" \in calls /\ answer # "LLM") =>
        /\ exc = "none"
        /\ "error: could not generate an answer" \in shown

(***************************************************************************)
(* Claims about the life of the index (Spec)                               *)
(***************************************************************************)
Supported(f) == EndsWith(f.name, ".pdf") \/ EndsWith(f.name, ".docx")

\* The files of the base folder that hold text to index.
Indexable(files) == {f \in files : Supported(f) /\ Body(f.kind) # << >> /\ f.kind # "blank"}

SourcesOf(docs) == {docs[i].source : i \in 1..Len(docs)}

BaseReads == {"load_documents_base", "from_documents", "save_local"}

Merged == run = "ingest" /\ "success: knowledge base updated" \in shown

\* C5: a merge builds a fresh index from the new chunks when there was no
\* index and adds them to the index otherwise; afterwards the index holds
\* the old entries followed by one entry per new chunk (nothing is
\* deduplicated), the persisted index equals the index in memory, and the
\* sidebar lists the file names of the old and of the new documents.
C5_Merge ==
    Merged =>
        /\ db.some
        /\ db.docs = db0.docs \o newChunks
        /\ Len(db.docs) = Len(db0.docs) + Len(newChunks)
        /\ store = db
        /\ db0.some => "add_documents" \in calls
        /\ ~db0.some => ("from_documents" \in calls /\ "add_documents" \notin calls)
        /\ \A i \in 1..Len(db0.docs) : \E k \in 1..Len(docList) :
               docList[k] = Basename(db0.docs[i].source)
        /\ \A i \in 1..Len(newChunks) : \E k \in 1..Len(docList) :
               docList[k] = Basename(newChunks[i].source)

\* C5 witness: a merge into an existing index of chunks whose text the index
\* already held, with a second file name new to the index.
C5_Witness ==
    /\ Merged
    /\ db0.some
    /\ \E i \in 1..Len(db0.docs), j \in 1..Len(newChunks) :
           db0.docs[i].text = newChunks[j].text
    /\ \E j \in 1..Len(newChunks) : \A i \in 1..Len(db0.docs) :
           Basename(db0.docs[i].source) # Basename(newChunks[j].source)

\* C9: the sidebar listing holds every indexed file name exactly once, in
\* ascending order, and is empty when there is no index.
C9_ListingDeduplicated ==
    /\ ~db.some => docList = << >>
    /\ \A i, j \in 1..Len(docList) :
           i < j => NameRank(docList[i]) < NameRank(docList[j])
    /\ (db.some /\ exc = "none") =>
           {docList[k] : k \in 1..Len(docList)}
               = {Basename(src) : src \in SourcesOf(db.docs)}

\* C10: a merge leaves the uploads folder empty, and no staged copy of an
\* uploaded file is indexed by more than one ingestion run: every copy a
\* run indexes, and every copy still staged, was never indexed before.
C10_StagedOnce ==
    /\ Merged => (uploadDir.exists /\ uploadDir.files = {})
    /\ \A f \in indexedNow : f.times = 0
    /\ \A f \in uploadDir.files : f.times = 0

\* C10 witness: a merge that indexed a copy staged by an earlier ingestion
\* run, which had failed or found nothing to load.
C10_Witness ==
    /\ Merged
    /\ \E f \in indexedNow : f.old

====
